---- MODULE Spec2Model ----
(***************************************************************************)
(* A model of src/v1.py: QAAutomationBot (log, generate_html_report,       *)
(* run_test) and the Action callables run_test invokes.                    *)
(*                                                                         *)
(* One run_test call is a sequential program; pc is its position and each  *)
(* action below is one statement of it.  The environment (the browser, the *)
(* page under test, the wall clock, the code of a user-supplied Action) is *)
(* the nondeterminism: a Playwright call either returns or raises an       *)
(* instance of Exception carrying a message (an exception that is not an   *)
(* Exception, such as KeyboardInterrupt, is outside the model).  The calls *)
(* that may raise are                                                      *)
(* launch, new_context, new_page, goto, wait_for_load_state, both          *)
(* screenshots and every page call an Action makes; context.close(),       *)
(* browser.close() and the write of report.html return normally.           *)
(*                                                                         *)
(* Text is a sequence of tokens: an f-string is the concatenation of its   *)
(* parts, and the report is the token sequence written to report.html.     *)
(***************************************************************************)
EXTENDS Integers, Sequences, FiniteSets, TLC

\* ------------------------------------------------------------- bounds ---
MaxActions == 3      \* longest scenario handed to run_test
MaxUserLogs == 1     \* most log() calls one user-supplied Action makes
ClockFace == 4       \* distinct values of the %H:%M:%S clock before it wraps
MaxBuiltins == 2     \* longest list of example Actions besides the main scenario
MaxRuns == 2         \* most run_test calls made on one bot
MaxButtons == 2      \* most elements the button locator matches

\* ------------------------------------------------------------ inputs ----
Urls == {"u"}
\* the (message, status) pairs a user-supplied Action may pass to log();
\* the second message carries markup, and a status an Action is free to use
UserEntries == { <<<<"m">>, "INFO">>, <<<<"<tr>", "<td>", "x">>, "ERROR">> }
\* messages of the exceptions the environment raises; the second one quotes
\* an element of the page
ExcMsgs == {<<"Timeout">>, <<"resolved to ", "<td>", "x", "</td>">>}
\* the built-in Actions and one arbitrary user-supplied callable
Kinds == {"user"}

RECURSIVE SeqsUpTo(_, _)
SeqsUpTo(S, n) ==
    IF n = 0 THEN {<<>>}
    ELSE LET shorter == SeqsUpTo(S, n - 1)
         IN  shorter \cup {Append(s, x) : s \in {t \in shorter : Len(t) = n - 1}, x \in S}

Scenarios == SeqsUpTo(Kinds, MaxActions)

VARIABLES
    pc,           \* position of the run_test call
    apc,          \* position inside the Action being executed
    target_url,   \* run_test's argument
    runs,         \* run_test calls made on this bot so far
    actions,      \* run_test's argument: the ordered Action list
    i,            \* index (0-based) of the for loop over actions
    report_logs,  \* self.report_logs
    e,            \* the exception caught by "except Exception as e"
    exc,          \* the exception leaving run_test (pending while finally runs)
    outcome,      \* how run_test left: "none", "returned", "raised"
    calls,        \* the browser and file-system calls made so far in this run
    invoked,      \* indices of the Actions invoked so far in this run
    returned,     \* report_logs as it was when each invoked Action returned
    authors,      \* who appended each entry of report_logs: an Action index, or Bot
    report,       \* content of report.html (<<>> while not written)
    clock,        \* the wall clock read by datetime.now(), in ticks
    viewport,     \* the viewport size of the page ("" while there is no context)
    loc           \* the local variables of the Action being executed

vars == <<pc, apc, target_url, runs, actions, i, report_logs, e, exc, outcome,
          calls, invoked, returned, authors, report, clock, viewport, loc>>

Bot == -1     \* the author of the entries run_test itself appends

\* the locals of an Action at its call: nlogs counts the log() calls of a
\* user-supplied callable, k is the loop counter of a sweep, buttons is
\* len(buttons) of action_click_buttons, visible the answer of is_visible()
NoLocals == [nlogs |-> 0, k |-> 0, buttons |-> 0, visible |-> FALSE]

NoExc == [raised |-> FALSE, msg |-> <<>>]
Raised(m) == [raised |-> TRUE, msg |-> m]

\* ------------------------------------------------------------ Logger ----
\* datetime.now().strftime("%H:%M:%S"): the time of day, which wraps
TimeStr(t) == "t" \o ToString(t % ClockFace)

LogEntry(t, message, status) ==
    [time |-> TimeStr(t), status |-> status, message |-> message]

\* faulty variant: the entry is inserted at the front of the list
LogInsertFront(logs, t, message, status) == <<LogEntry(t, message, status)>> \o logs

\* self.report_logs.append(log_entry)
Log(logs, t, message, status) == Append(logs, LogEntry(t, message, status))

\* --------------------------------------------------- Report Renderer ----
timestamp == "TS"         \* self.timestamp, fixed at construction
result_dir == "qa/TS"     \* self.result_dir

RECURSIVE Join(_)
\* "".join(parts)
Join(parts) == IF parts = <<>> THEN <<>> ELSE Head(parts) \o Join(Tail(parts))

\* the f-string of one table row
RenderRow(l) ==
    <<"<tr>", "<td>", l.time, "</td>",
      "<td class='", l.status, "'>", l.status, "</td>", "<td>">>
    \o l.message \o <<"</td>", "</tr>">>

ReportHead ==
    <<"<html>", "<title>", timestamp, "</title>",
      "<p>", timestamp, "</p>", "<p>", result_dir, "</p>",
      "<table>", "<tr>", "<th>", "time", "</th>", "<th>", "status", "</th>",
      "<th>", "message", "</th>", "</tr>">>

ReportTail == <<"</table>", "<p>", "videos/", "</p>", "</html>">>

\* html_content of generate_html_report
RenderReport(logs) ==
    ReportHead \o Join([n \in 1 .. Len(logs) |-> RenderRow(logs[n])]) \o ReportTail

\* ------------------------------------------- reading a report back ------
\* What a reader of report.html sees as the rows of its first table: a row
\* is the sequence of its <td> cells, a cell the text tokens inside it.
Structural == {"<tr>", "</tr>", "<td>", "</td>", "<th>", "</th>"}

Min(S) == CHOOSE x \in S : \A y \in S : x <= y
Max(S) == CHOOSE x \in S : \A y \in S : y <= x
Sorted(S) == [n \in 1 .. Cardinality(S) |-> CHOOSE x \in S : Cardinality({y \in S : y <= x}) = n]

\* the latest position before n holding a token of S (0 when there is none)
LastOf(doc, S, n) == Max({0} \cup {q \in 1 .. n - 1 : doc[q] \in S})

\* position n lies inside the quotes of a class attribute, or closes them
InAttr(doc, n) ==
    LET q == LastOf(doc, {"<td class='", "'>"}, n)
    IN  q > 0 /\ doc[q] = "<td class='"

\* the tokens between <table> and the </table> that closes it, attribute
\* values dropped and every cell tag reduced to <td>
TableBody(doc) ==
    LET opens == {n \in 1 .. Len(doc) : doc[n] = "<table>"}
        from == IF opens = {} THEN Len(doc) + 1 ELSE Min(opens)
        rest == SubSeq(doc, from + 1, Len(doc))
        ends == {n \in 1 .. Len(rest) : rest[n] = "</table>" /\ ~InAttr(rest, n)}
        body == SubSeq(rest, 1, IF ends = {} THEN Len(rest) ELSE Min(ends) - 1)
        keep == Sorted({n \in 1 .. Len(body) : ~InAttr(body, n)})
    IN  [n \in 1 .. Len(keep) |->
            IF body[keep[n]] = "<td class='" THEN "<td>" ELSE body[keep[n]]]

\* a row starts at <tr>, and at a cell tag met outside any row
StartsRow(body, n) ==
    \/ body[n] = "<tr>"
    \/ /\ body[n] \in {"<td>", "<th>"}
       /\ LET q == LastOf(body, {"<tr>", "</tr>", "<td>", "<th>"}, n)
          IN  q = 0 \/ body[q] = "</tr>"

\* the text of the cell opened at n: the tokens up to the next tag
CellText(body, n) ==
    SubSeq(body, n + 1,
           Min({Len(body) + 1} \cup {q \in n + 1 .. Len(body) : body[q] \in Structural}) - 1)

ParseTable(doc) ==
    LET body == TableBody(doc)
        starts == Sorted({n \in 1 .. Len(body) : StartsRow(body, n)})
        until(r) == IF r = Len(starts) THEN Len(body) ELSE starts[r + 1] - 1
        cells(r) == Sorted({n \in starts[r] .. until(r) : body[n] = "<td>"})
    IN  [r \in 1 .. Len(starts) |->
            [c \in 1 .. Len(cells(r)) |-> CellText(body, cells(r)[c])]]

\* the rows below the heading row
TableRows(doc) ==
    LET rows == ParseTable(doc)
    IN  IF rows = <<>> THEN <<>> ELSE Tail(rows)

\* the row a log entry is meant to appear as
RowOf(l) == << <<l.time>>, <<l.status>>, l.message >>

\* ----------------------------------------------- Session Orchestrator ---
DefaultViewport == "1280x720"

\* a blocking call to the browser or the file system: it is recorded, and
\* the wall clock has moved on by the time it returns or raises
Call(op, arg, ok) ==
    /\ calls' = Append(calls, [op |-> op, arg |-> arg, ok |-> ok])
    /\ clock' = clock + 1

\* self.log(message, status) called by who
DoLog(who, message, status) ==
    /\ report_logs' = Log(report_logs, clock, message, status)
    /\ authors' = Append(authors, who)

Init ==
    /\ pc = "idle"
    /\ apc = "none"
    /\ target_url = ""
    /\ runs = 0
    /\ actions = <<>>
    /\ i = 0
    /\ report_logs = <<>>
    /\ e = NoExc
    /\ exc = NoExc
    /\ outcome = "none"
    /\ calls = <<>>
    /\ invoked = <<>>
    /\ returned = <<>>
    /\ authors = <<>>
    /\ report = <<>>
    /\ clock = 0
    /\ viewport = ""
    /\ loc = NoLocals

\* bot.run_test(url, acts) is called
RunTest(url, acts) ==
    /\ pc = "idle"
    /\ pc' = "launch"
    /\ target_url' = url
    /\ actions' = acts
    /\ runs' = runs + 1
    /\ UNCHANGED <<apc, i, report_logs, e, exc, outcome, calls, invoked,
                   returned, authors, report, clock, viewport, loc>>

\* a call outside the try statement: it returns, or its exception leaves
\* run_test at once, since nothing encloses the statement
SetupCall(from, op, to) ==
    /\ pc = from
    /\ \/ /\ Call(op, "", TRUE)
          /\ pc' = to
          /\ UNCHANGED <<exc, outcome>>
       \/ \E m \in ExcMsgs :
             /\ Call(op, "", FALSE)
             /\ exc' = Raised(m)
             /\ outcome' = "raised"
             /\ pc' = "done"
    /\ UNCHANGED <<apc, target_url, runs, actions, i, report_logs, e, invoked,
                   returned, authors, report, loc>>

\* browser = p.chromium.launch(headless=False)
Launch == SetupCall("launch", "launch", "new_context") /\ UNCHANGED viewport

\* context = browser.new_context(..., viewport={"width": 1280, "height": 720})
NewContext ==
    /\ SetupCall("new_context", "new_context", "new_page")
    /\ viewport' = IF pc' = "new_page" THEN DefaultViewport ELSE viewport

\* page = context.new_page()
NewPage == SetupCall("new_page", "new_page", "log_start") /\ UNCHANGED viewport

\* a log() call of run_test: appends the entry and moves on to position to
LogStep(from, message, status, to) ==
    /\ pc = from
    /\ DoLog(Bot, message, status)
    /\ pc' = to
    /\ UNCHANGED <<apc, target_url, runs, actions, i, e, exc, outcome, calls,
                   invoked, returned, report, clock, viewport, loc>>

\* a page call inside the try block: returns, or raises into the except clause
TryCall(from, op, arg, to) ==
    /\ pc = from
    /\ \/ /\ Call(op, arg, TRUE)
          /\ pc' = to
          /\ UNCHANGED e
       \/ \E m \in ExcMsgs :
             /\ Call(op, arg, FALSE)
             /\ e' = Raised(m)
             /\ pc' = "except"
    /\ UNCHANGED <<apc, target_url, runs, actions, i, report_logs, exc, outcome,
                   invoked, returned, authors, report, viewport, loc>>

\* self.log(f"... {target_url}")
LogStart == LogStep("log_start", <<"start: ", target_url>>, "INFO", "goto")

\* faulty variant: navigation without the quiescence wait
GotoNoWait == TryCall("goto", "goto", target_url, "log_nav")

\* page.goto(target_url)
Goto == TryCall("goto", "goto", target_url, "wait")

\* faulty variant: a failed wait for quiescence is swallowed and the run goes on
WaitLoadIgnored ==
    /\ pc = "wait"
    /\ \E ok \in BOOLEAN : Call("wait_for_load_state", "networkidle", ok)
    /\ pc' = "log_nav"
    /\ UNCHANGED <<apc, target_url, runs, actions, i, report_logs, e, exc, outcome,
                   invoked, returned, authors, report, viewport, loc>>

\* page.wait_for_load_state("networkidle")
WaitLoad == TryCall("wait", "wait_for_load_state", "networkidle", "log_nav")

\* faulty variant: the load is logged with the default status
LogNavAsInfo == LogStep("log_nav", <<"page loaded">>, "INFO", "actions")

\* self.log("...", "SUCCESS")
LogNav == LogStep("log_nav", <<"page loaded">>, "SUCCESS", "actions")

\* for action in actions: action(page, self)
InvokeAction ==
    /\ pc = "actions"
    /\ i < Len(actions)
    /\ invoked' = Append(invoked, i)
    /\ pc' = "in_action"
    /\ apc' = actions[i + 1]
    /\ loc' = NoLocals
    /\ UNCHANGED <<target_url, runs, actions, i, report_logs, e, exc, outcome, calls,
                   returned, authors, report, clock, viewport>>

\* the for loop is exhausted
LoopEnd ==
    /\ pc = "actions"
    /\ i = Len(actions)
    /\ pc' = "final_shot"
    /\ UNCHANGED <<apc, target_url, runs, actions, i, report_logs, e, exc, outcome,
                   calls, invoked, returned, authors, report, clock,
                   viewport, loc>>

\* the Action returns to the for loop, which moves to the next one
ActionReturn ==
    /\ pc' = "actions"
    /\ apc' = "none"
    /\ i' = i + 1
    /\ returned' = Append(returned, report_logs)
    /\ UNCHANGED e

\* faulty variant: the exception is swallowed inside the loop, which goes on
ActionRaiseContinue(m) ==
    /\ pc' = "actions"
    /\ apc' = "none"
    /\ e' = Raised(m)
    /\ i' = i + 1
    /\ UNCHANGED returned

\* the Action raises into run_test's except clause
ActionRaise(m) ==
    /\ pc' = "except"
    /\ apc' = "none"
    /\ e' = Raised(m)
    /\ UNCHANGED <<i, returned>>

\* page.screenshot(path=screenshot_path)
FinalShot == TryCall("final_shot", "screenshot", "final_screenshot.png", "log_final")

\* self.log(f"...: {screenshot_path}", "SUCCESS"); the try block ends
LogFinal ==
    LogStep("log_final", <<"final screenshot: ", result_dir, "/final_screenshot.png">>,
            "SUCCESS", "close_context")

\* the message of the entry the except clause logs: f"...: {str(e)}"
ErrorMessage(x) == <<"error: ">> \o x.msg

\* faulty variant: the except clause goes to the screenshot without logging
LogErrorSkipped ==
    /\ pc = "except"
    /\ pc' = "error_shot"
    /\ UNCHANGED <<apc, target_url, runs, actions, i, report_logs, e, exc, outcome,
                   calls, invoked, returned, authors, report, clock, viewport, loc>>

\* except Exception as e: self.log(f"...: {str(e)}", "ERROR")
LogError == LogStep("except", ErrorMessage(e), "ERROR", "error_shot")

\* faulty variant: no finally clause: a failing error screenshot leaves run_test at once
ErrorShotNoFinally ==
    /\ pc = "error_shot"
    /\ \/ /\ Call("screenshot", "error_screenshot.png", TRUE)
          /\ pc' = "close_context"
          /\ UNCHANGED <<exc, outcome>>
       \/ \E m \in ExcMsgs :
             /\ Call("screenshot", "error_screenshot.png", FALSE)
             /\ exc' = Raised(m)
             /\ outcome' = "raised"
             /\ pc' = "done"
    /\ UNCHANGED <<apc, target_url, runs, actions, i, report_logs, e, invoked,
                   returned, authors, report, viewport, loc>>

\* page.screenshot(path=.../error_screenshot.png) in the except clause: when
\* it raises, the new exception is pending while the finally clause runs
ErrorShot ==
    /\ pc = "error_shot"
    /\ \/ /\ Call("screenshot", "error_screenshot.png", TRUE)
          /\ UNCHANGED exc
       \/ \E m \in ExcMsgs :
             /\ Call("screenshot", "error_screenshot.png", FALSE)
             /\ exc' = Raised(m)
    /\ pc' = "close_context"
    /\ UNCHANGED <<apc, target_url, runs, actions, i, report_logs, e, outcome,
                   invoked, returned, authors, report, viewport, loc>>

\* a statement of the finally clause that calls op and moves on to position to
FinallyCall(from, op, to) ==
    /\ pc = from
    /\ Call(op, "", TRUE)
    /\ pc' = to
    /\ UNCHANGED <<apc, target_url, runs, actions, i, report_logs, e, exc, outcome,
                   invoked, returned, authors, report, viewport, loc>>

\* faulty variant: the finally clause forgets to close the context
CloseContextForgotten ==
    /\ pc = "close_context"
    /\ pc' = "close_browser"
    /\ UNCHANGED <<apc, target_url, runs, actions, i, report_logs, e, exc, outcome,
                   calls, invoked, returned, authors, report, clock,
                   viewport, loc>>

\* finally: context.close()
CloseContext == FinallyCall("close_context", "context.close", "close_browser")

\* browser.close()
CloseBrowser == FinallyCall("close_browser", "browser.close", "report")

\* self.generate_html_report(); then the finally clause ends: a pending
\* exception is re-raised to the caller, otherwise run_test returns
GenerateReport ==
    /\ pc = "report"
    /\ report' = RenderReport(report_logs)
    /\ Call("write", "report.html", TRUE)
    /\ outcome' = IF exc.raised THEN "raised" ELSE "returned"
    /\ pc' = "done"
    /\ UNCHANGED <<apc, target_url, runs, actions, i, report_logs, e, exc, invoked,
                   returned, authors, viewport, loc>>

\* ------------------------------------------- a user-supplied Action -----
\* bot.log(message, status) inside the callable
UserLog ==
    /\ pc = "in_action" /\ apc = "user"
    /\ loc.nlogs < MaxUserLogs
    /\ loc' = [loc EXCEPT !.nlogs = @ + 1]
    /\ \E u \in UserEntries : DoLog(i, u[1], u[2])
    /\ UNCHANGED <<pc, apc, target_url, runs, actions, i, e, exc, outcome, calls,
                   invoked, returned, report, clock, viewport>>

\* the callable returns
UserReturn ==
    /\ pc = "in_action" /\ apc = "user"
    /\ ActionReturn
    /\ UNCHANGED <<target_url, runs, actions, report_logs, exc, outcome, calls,
                   invoked, authors, report, clock, viewport, loc>>

\* faulty variant: no try statement around the loop: the exception leaves run_test
UserRaiseUncaught ==
    /\ pc = "in_action" /\ apc = "user"
    /\ \E m \in ExcMsgs : exc' = Raised(m)
    /\ outcome' = "raised"
    /\ pc' = "done"
    /\ apc' = "none"
    /\ UNCHANGED <<target_url, runs, actions, i, report_logs, e, calls, invoked,
                   returned, authors, report, clock, viewport, loc>>

\* the callable raises
UserRaise ==
    /\ pc = "in_action" /\ apc = "user"
    /\ \E m \in ExcMsgs : ActionRaise(m)
    /\ UNCHANGED <<target_url, runs, actions, report_logs, exc, outcome, calls,
                   invoked, authors, report, clock, viewport, loc>>

\* ------------------------------------------------ the example Actions ---
sizes == <<"1920x1080", "768x1024", "375x812">>
ScrollSteps == 5
text_selector == "input[type='text'], input[type='search'], textarea"
button_selector == "button, input[type='submit'], a.btn"
Builtins == {"resize", "scroll", "type", "click"}
\* the scenario of the main block
scenario == <<"resize", "scroll", "type", "click">>

InAction(at) == pc = "in_action" /\ apc = at

\* bot.log(message, status) inside a built-in Action
ActLog(at, message, status, to) ==
    /\ InAction(at)
    /\ DoLog(i, message, status)
    /\ apc' = to
    /\ UNCHANGED <<pc, target_url, runs, actions, i, e, exc, outcome, calls, invoked,
                   returned, report, clock, viewport, loc>>

\* a page call of an Action outside any try: it returns, or its exception
\* leaves the Action
ActCall(at, op, arg, to) ==
    /\ InAction(at)
    /\ \/ /\ Call(op, arg, TRUE)
          /\ apc' = to
          /\ UNCHANGED <<pc, i, e, returned>>
       \/ \E m \in ExcMsgs :
             /\ Call(op, arg, FALSE)
             /\ ActionRaise(m)
    /\ UNCHANGED <<target_url, runs, actions, report_logs, exc, outcome, invoked,
                   authors, report>>

\* faulty variant: the page call stands outside the try, its exception leaves
\* the Action
GuardedCallUncaught(at, op, arg, to) ==
    /\ InAction(at)
    /\ \/ /\ Call(op, arg, TRUE)
          /\ apc' = to
          /\ UNCHANGED <<pc, i, e, returned>>
       \/ \E m \in ExcMsgs :
             /\ Call(op, arg, FALSE)
             /\ ActionRaise(m)
    /\ UNCHANGED <<target_url, runs, actions, report_logs, exc, outcome, invoked,
                   authors, report, viewport, loc>>

\* a page call inside the try of action_type_search: its exception is caught
\* by "except Exception"
GuardedCall(at, op, arg, to) ==
    /\ InAction(at)
    /\ \/ Call(op, arg, TRUE) /\ apc' = to
       \/ Call(op, arg, FALSE) /\ apc' = "type_except"
    /\ UNCHANGED <<pc, target_url, runs, actions, i, report_logs, e, exc, outcome,
                   invoked, returned, authors, report, viewport, loc>>

\* the end of a built-in Action's body
BuiltinReturn ==
    /\ InAction("end")
    /\ ActionReturn
    /\ UNCHANGED <<target_url, runs, actions, report_logs, exc, outcome, calls,
                   invoked, authors, report, clock, viewport, loc>>

\* action_resize_test
ResizeStart == ActLog("resize", <<"resize test start">>, "INFO", "resize_set")

\* for width, height in sizes: page.set_viewport_size(...)
ResizeSet ==
    /\ loc.k < Len(sizes)
    /\ ActCall("resize_set", "set_viewport_size", sizes[loc.k + 1], "resize_log")
    /\ viewport' = IF apc' = "resize_log" THEN sizes[loc.k + 1] ELSE viewport
    /\ UNCHANGED loc

\* bot.log(f"...: {width}x{height}", "INFO")
ResizeLog ==
    ActLog("resize_log", <<"resolution: ", sizes[loc.k + 1]>>, "INFO", "resize_wait")

\* page.wait_for_timeout(1000); the loop moves to the next size
ResizeWait ==
    /\ ActCall("resize_wait", "wait_for_timeout", "1000", "resize_set")
    /\ loc' = [loc EXCEPT !.k = @ + 1]
    /\ UNCHANGED viewport

\* faulty variant: the sweep ends on its last size, the viewport is not put back
ResizeNoRestore ==
    /\ loc.k = Len(sizes)
    /\ InAction("resize_set")
    /\ apc' = "end"
    /\ UNCHANGED <<pc, target_url, runs, actions, i, report_logs, e, exc, outcome,
                   calls, invoked, returned, authors, report, clock, viewport, loc>>

\* after the loop: page.set_viewport_size({"width": 1280, "height": 720})
ResizeRestore ==
    /\ loc.k = Len(sizes)
    /\ ActCall("resize_set", "set_viewport_size", DefaultViewport, "end")
    /\ viewport' = IF apc' = "end" THEN DefaultViewport ELSE viewport
    /\ UNCHANGED loc

\* action_scroll_test
ScrollStart == ActLog("scroll", <<"scroll test start">>, "INFO", "scroll_wheel")

\* for i in range(5): page.mouse.wheel(0, 500)
ScrollWheel ==
    /\ loc.k < ScrollSteps
    /\ ActCall("scroll_wheel", "mouse.wheel", "0,500", "scroll_wait")
    /\ UNCHANGED <<viewport, loc>>

\* page.wait_for_timeout(500)
ScrollWait ==
    /\ ActCall("scroll_wait", "wait_for_timeout", "500", "scroll_wheel")
    /\ loc' = [loc EXCEPT !.k = @ + 1]
    /\ UNCHANGED viewport

\* after the loop: bot.log("...", "INFO")
ScrollBottomLog ==
    /\ loc.k = ScrollSteps
    /\ ActLog("scroll_wheel", <<"bottom reached">>, "INFO", "scroll_top")

\* page.evaluate("window.scrollTo(0, 0)")
ScrollTop ==
    /\ ActCall("scroll_top", "evaluate", "window.scrollTo(0, 0)", "scroll_done")
    /\ UNCHANGED <<viewport, loc>>

\* bot.log("...", "SUCCESS")
ScrollDoneLog == ActLog("scroll_done", <<"scroll test done">>, "SUCCESS", "end")

\* action_type_search: if page.is_visible(target_selector), which answers
\* False when nothing matches
TypeVisible ==
    /\ InAction("type")
    /\ \/ \E v \in BOOLEAN :
             /\ Call("is_visible", text_selector, TRUE)
             /\ loc' = [loc EXCEPT !.visible = v]
             /\ apc' = IF v THEN "type_found" ELSE "type_absent"
       \/ /\ Call("is_visible", text_selector, FALSE)
          /\ apc' = "type_except"
          /\ loc' = loc
    /\ UNCHANGED <<pc, target_url, runs, actions, i, report_logs, e, exc, outcome,
                   invoked, returned, authors, report, viewport>>

TypeFoundLog ==
    ActLog("type_found", <<"input field found (", text_selector, "), typing">>,
           "INFO", "type_fill")

\* page.fill(target_selector, "...")
TypeFill == GuardedCall("type_fill", "fill", text_selector, "type_wait")

\* page.wait_for_timeout(1000)
TypeWait == GuardedCall("type_wait", "wait_for_timeout", "1000", "type_done")

TypeDoneLog == ActLog("type_done", <<"typing done">>, "SUCCESS", "end")

\* faulty variant: a missing input field is logged as an error
TypeAbsentAsError ==
    ActLog("type_absent", <<"no input field found (Skip)">>, "ERROR", "end")

\* else: bot.log("... (Skip)", "INFO")
TypeAbsentLog == ActLog("type_absent", <<"no input field found (Skip)">>, "INFO", "end")

\* except Exception: bot.log("...", "INFO")
TypeExceptLog == ActLog("type_except", <<"typing element lookup failed">>, "INFO", "end")

\* action_click_buttons
ClickStart == ActLog("click", <<"button test start">>, "INFO", "click_all")

\* buttons = page.locator("...").all(); if buttons: ... else: ...
ClickAll ==
    /\ InAction("click_all")
    /\ \/ \E n \in 0 .. MaxButtons :
             /\ Call("locator.all", button_selector, TRUE)
             /\ loc' = [loc EXCEPT !.buttons = n]
             /\ apc' = IF n > 0 THEN "click_count" ELSE "click_none"
             /\ UNCHANGED <<pc, i, e, returned>>
       \/ \E m \in ExcMsgs :
             /\ Call("locator.all", button_selector, FALSE)
             /\ ActionRaise(m)
             /\ UNCHANGED loc
    /\ UNCHANGED <<target_url, runs, actions, report_logs, exc, outcome, invoked,
                   authors, report, viewport>>

\* bot.log(f"...: {len(buttons)}")
ClickCountLog ==
    ActLog("click_count", <<"buttons found: ", ToString(loc.buttons)>>, "INFO",
           "click_visible")

\* faulty variant: the answer of is_visible is not looked at, the hover follows
ClickVisibleIgnored ==
    /\ InAction("click_visible")
    /\ \/ \E v \in BOOLEAN :
             /\ Call("first_btn.is_visible", "", TRUE)
             /\ loc' = [loc EXCEPT !.visible = v]
             /\ apc' = "click_hover"
             /\ UNCHANGED <<pc, i, e, returned>>
       \/ \E m \in ExcMsgs :
             /\ Call("first_btn.is_visible", "", FALSE)
             /\ ActionRaise(m)
             /\ loc' = loc
    /\ UNCHANGED <<target_url, runs, actions, report_logs, exc, outcome, invoked,
                   authors, report, viewport>>

\* if first_btn.is_visible(): when it answers False the function ends
ClickVisible ==
    /\ InAction("click_visible")
    /\ \/ \E v \in BOOLEAN :
             /\ Call("first_btn.is_visible", "", TRUE)
             /\ loc' = [loc EXCEPT !.visible = v]
             /\ apc' = IF v THEN "click_hover" ELSE "end"
             /\ UNCHANGED <<pc, i, e, returned>>
       \/ \E m \in ExcMsgs :
             /\ Call("first_btn.is_visible", "", FALSE)
             /\ ActionRaise(m)
             /\ loc' = loc
    /\ UNCHANGED <<target_url, runs, actions, report_logs, exc, outcome, invoked,
                   authors, report, viewport>>

\* first_btn.hover()
ClickHover ==
    /\ ActCall("click_hover", "first_btn.hover", "", "click_success")
    /\ UNCHANGED <<viewport, loc>>

ClickSuccessLog == ActLog("click_success", <<"first button hovered">>, "SUCCESS", "end")

\* else: bot.log("...", "INFO")
ClickNoneLog == ActLog("click_none", <<"no button found">>, "INFO", "end")

\* the statements of run_test
RunSteps ==
    \/ Launch \/ NewContext \/ NewPage
    \/ LogStart \/ Goto \/ WaitLoad \/ LogNav
    \/ InvokeAction \/ LoopEnd
    \/ FinalShot \/ LogFinal
    \/ LogError \/ ErrorShot
    \/ CloseContext \/ CloseBrowser \/ GenerateReport

Next ==
    \/ \E url \in Urls, acts \in Scenarios : RunTest(url, acts)
    \/ UserLog \/ UserReturn \/ UserRaise
    \/ RunSteps

Spec == Init /\ [][Next]_vars

\* run_test with the example Actions: the scenario of the main block, and
\* every list of at most MaxBuiltins of them
BuiltinScenarios == SeqsUpTo(Builtins, MaxBuiltins) \cup {scenario}

NextActions ==
    \/ \E url \in Urls, acts \in BuiltinScenarios : RunTest(url, acts)
    \/ RunSteps
    \/ ResizeStart \/ ResizeSet \/ ResizeLog \/ ResizeWait \/ ResizeRestore
    \/ ScrollStart \/ ScrollWheel \/ ScrollWait \/ ScrollBottomLog \/ ScrollTop
    \/ ScrollDoneLog
    \/ TypeVisible \/ TypeFoundLog \/ TypeFill \/ TypeWait \/ TypeDoneLog
    \/ TypeAbsentLog \/ TypeExceptLog
    \/ ClickStart \/ ClickAll \/ ClickCountLog \/ ClickVisible \/ ClickHover
    \/ ClickSuccessLog \/ ClickNoneLog
    \/ BuiltinReturn

SpecActions == Init /\ [][NextActions]_vars

\* ------------------------------------- several calls on the same bot -----
\* Action lists of the calls made one after another on one bot
RunScenarios == {<<>>, <<"user">>}

\* faulty variant: each call starts from an empty log
RunTestAgainFreshLog(url, acts) ==
    /\ pc = "done"
    /\ runs < MaxRuns
    /\ pc' = "launch"
    /\ target_url' = url
    /\ actions' = acts
    /\ runs' = runs + 1
    /\ i' = 0 /\ apc' = "none" /\ loc' = NoLocals /\ viewport' = ""
    /\ e' = NoExc /\ exc' = NoExc /\ outcome' = "none"
    /\ calls' = <<>> /\ invoked' = <<>> /\ returned' = <<>>
    /\ report_logs' = <<>> /\ authors' = <<>>
    /\ UNCHANGED <<report, clock>>

\* a further call bot.run_test(url, acts) after the previous one has ended:
\* the locals of the call (and the record kept of it) start afresh; the
\* bot's fields report_logs and result_dir, and the file report.html, are as
\* the previous call left them
RunTestAgain(url, acts) ==
    /\ pc = "done"
    /\ runs < MaxRuns
    /\ pc' = "launch"
    /\ target_url' = url
    /\ actions' = acts
    /\ runs' = runs + 1
    /\ i' = 0 /\ apc' = "none" /\ loc' = NoLocals /\ viewport' = ""
    /\ e' = NoExc /\ exc' = NoExc /\ outcome' = "none"
    /\ calls' = <<>> /\ invoked' = <<>> /\ returned' = <<>>
    /\ UNCHANGED <<report_logs, authors, report, clock>>

NextRuns ==
    \/ \E url \in Urls, acts \in RunScenarios : RunTest(url, acts)
    \/ \E url \in Urls, acts \in RunScenarios : RunTestAgain(url, acts)
    \/ UserLog \/ UserReturn \/ UserRaise
    \/ RunSteps

SpecRuns == Init /\ [][NextRuns]_vars

\* ================================================================ claims
IsPrefix(a, b) == Len(a) <= Len(b) /\ SubSeq(b, 1, Len(a)) = a
Last(q) == q[Len(q)]

\* positions in calls of the calls of op
Ops(op) == {n \in 1 .. Len(calls) : calls[n].op = op}
Count(op) == Cardinality(Ops(op))
Succeeded(op) == \E n \in Ops(op) : calls[n].ok
Failed(op, arg) == \E n \in Ops(op) : calls[n].arg = arg /\ ~calls[n].ok

\* the run got as far as the try statement (line 94): browser, context and
\* page were all acquired
EnteredTry == Succeeded("new_page")
Finished == pc = "done"
TornDownOnce ==
    Count("context.close") = 1 /\ Count("browser.close") = 1 /\ Count("write") = 1

\* positions of the ERROR entries run_test itself appended
BotErrors ==
    {n \in 1 .. Len(report_logs) : authors[n] = Bot /\ report_logs[n].status = "ERROR"}

\* the except clause was entered because an Action raised
ActionRaised == e.raised /\ Len(invoked) > Len(returned)
ErrorShotFailed == Failed("screenshot", "error_screenshot.png")
InOrder(q) == q = [n \in 1 .. Len(q) |-> n - 1]

\* C1: once browser, context and page are acquired, a run_test call makes
\* exactly one context close, one browser close and one write of report.html
\* by the time it ends, for every Action list and whichever Action raises;
\* none of the three ever happens twice.
C1_TeardownOncePerRun ==
    /\ Count("context.close") <= 1
    /\ Count("browser.close") <= 1
    /\ Count("write") <= 1
    /\ (Finished /\ EnteredTry) => TornDownOnce

C1_Witness ==
    /\ Finished /\ ActionRaised /\ TornDownOnce
    /\ Len(actions) = 3 /\ Len(invoked) = 2

\* C2 (as claimed): every run_test call that ends has closed the context,
\* closed the browser and written the report exactly once, whichever earlier
\* step failed, browser acquisition, context creation and page creation
\* included.
C2_TeardownOnceWhateverFailed == Finished => TornDownOnce

\* C3 (as claimed): when navigation, the wait or an Action raised, run_test
\* appended exactly one ERROR entry carrying the exception's message and
\* returned normally.
C3_FailureAbsorbed ==
    (Finished /\ e.raised /\ ~Failed("screenshot", "final_screenshot.png")) =>
        /\ outcome = "returned"
        /\ Cardinality(BotErrors) = 1
        /\ \A n \in BotErrors : report_logs[n].message = ErrorMessage(e)

\* C4 (as claimed): when the error screenshot fails, run_test still returns
\* normally.
C4_ErrorShotFailureNotReraised ==
    (Finished /\ ErrorShotFailed) => outcome = "returned"

\* C5: after the error screenshot has failed, the log still ends with the one
\* ERROR entry of the original failure, and the run goes on to close the
\* context, close the browser and write the report holding that log.
C5_ErrorShotFailureKeepsLogAndTeardown ==
    ErrorShotFailed =>
        /\ pc \in {"close_context", "close_browser", "report", "done"}
        /\ Cardinality(BotErrors) = 1
        /\ Len(report_logs) \in BotErrors
        /\ Last(report_logs).message = ErrorMessage(e)
        /\ Finished => (TornDownOnce /\ report = RenderReport(report_logs))

C5_Witness == Finished /\ ErrorShotFailed /\ Len(report_logs) > 2

\* C6: the Actions are invoked in list order, each at most once, the next one
\* only after the one before has returned, and none before goto and the
\* quiescence wait have both returned without raising.
C6_ActionsInOrderAfterLoad ==
    /\ InOrder(invoked)
    /\ Len(invoked) <= Len(actions)
    /\ Len(returned) <= Len(invoked)
    /\ Len(invoked) <= Len(returned) + 1
    /\ (pc = "in_action") => (Len(invoked) = Len(returned) + 1 /\ i = Last(invoked))
    /\ invoked # <<>> =>
          \E g \in Ops("goto"), w \in Ops("wait_for_load_state") :
             g < w /\ calls[g].ok /\ calls[w].ok

C6_Witness == Finished /\ Len(invoked) = 3 /\ Len(returned) = 3

\* C7: once Action f has raised, the loop is left and no later Action is
\* invoked; the log as it was when each of the Actions 0..f-1 returned stays
\* a prefix of the log, no entry is authored by an Action after f, run_test
\* appends one ERROR entry after them, and the report written holds that log.
C7_RaiseStopsLoopKeepsEarlierEntries ==
    ActionRaised =>
        /\ pc \in {"except", "error_shot", "close_context", "close_browser",
                   "report", "done"}
        /\ InOrder(invoked) /\ Len(invoked) <= Len(actions)
        /\ \A k \in 1 .. Len(returned) : IsPrefix(returned[k], report_logs)
        /\ \A n \in 1 .. Len(authors) : authors[n] = Bot \/ authors[n] < Len(invoked)
        /\ (pc # "except") =>
              /\ Cardinality(BotErrors) = 1
              /\ Len(report_logs) \in BotErrors
              /\ Last(report_logs).message = ErrorMessage(e)
        /\ Finished => report = RenderReport(report_logs)

C7_Witness ==
    /\ Finished /\ ActionRaised
    /\ Len(actions) = 3 /\ Len(invoked) = 2
    /\ \E n \in 1 .. Len(authors) : authors[n] = 0

\* C8: the context is closed before the browser, and the report is written
\* only after both closes, on the success path and on the failure path.
C8_CloseContextThenBrowserThenReport ==
    /\ \A b \in Ops("browser.close") : \E c \in Ops("context.close") : c < b
    /\ \A w \in Ops("write") :
          \E c \in Ops("context.close"), b \in Ops("browser.close") : c < b /\ b < w
    /\ report # <<>> => Count("write") = 1

C8_Witness == Finished /\ report # <<>> /\ ~e.raised /\ Len(invoked) = 1

\* C9 (as claimed): the rows of the log table of report.html are exactly the
\* log entries, in order, each with the status and message given to log().
C9_ReportRowsAreTheLog ==
    (Finished /\ report # <<>>) =>
        TableRows(report) = [n \in 1 .. Len(report_logs) |-> RowOf(report_logs[n])]

\* What does hold of the table: when no logged message holds a tag, its rows
\* are the log entries, in order.
Plain(l) == \A k \in 1 .. Len(l.message) : l.message[k] \notin Structural \cup {"</table>"}
PlainReportRowsAreTheLog ==
    (Finished /\ report # <<>> /\ \A n \in 1 .. Len(report_logs) : Plain(report_logs[n])) =>
        TableRows(report) = [n \in 1 .. Len(report_logs) |-> RowOf(report_logs[n])]

\* C10: in a run that reached the try statement every step leaves the log as
\* a prefix of the new log; the report is written at most once, nothing is
\* logged after it, and when the run ends the write of the report, holding
\* the whole log, is the last thing it did.
C10_AppendOnlyLogFlushedOnceAtEnd ==
    /\ [][/\ IsPrefix(report_logs, report_logs')
          /\ report # <<>> => (report_logs' = report_logs /\ report' = report)]_vars
    /\ [](/\ Count("write") <= 1
          /\ (Finished /\ EnteredTry) =>
                /\ Count("write") = 1
                /\ Last(calls).op = "write"
                /\ report = RenderReport(report_logs))

C10_Witness == Finished /\ e.raised /\ invoked = <<>> /\ report # <<>>

\* The lifecycle state of spec section 4.3 that a position of run_test lies
\* in. A finished call is Reported when the teardown ran and the report was
\* written; otherwise it stopped in the state its last call belongs to.
RunState ==
    CASE pc = "idle" -> "Created"
      [] pc \in {"launch", "new_context", "new_page"} -> "Launching"
      [] pc \in {"close_context", "close_browser", "report"} -> "Finalizing"
      [] pc = "done" ->
            IF Succeeded("context.close") /\ Succeeded("browser.close")
               /\ Succeeded("write") /\ report = RenderReport(report_logs)
            THEN "Reported"
            ELSE IF ~EnteredTry THEN "Launching"
            ELSE IF Count("context.close") = 0 THEN "Running"
            ELSE "Finalizing"
      [] OTHER -> "Running"

\* C11 (as claimed): a run_test call does not get stuck (every state that is
\* not the end of the call has a next step), and the call ends in Reported,
\* never in Launching, Running or Finalizing.
C11_EndsReported ==
    /\ Finished \/ ENABLED Next
    /\ Finished => RunState = "Reported"

\* what the log says, leaving the times out: (status, message) of each entry
Said(logs) == [n \in 1 .. Len(logs) |-> <<logs[n].status, logs[n].message>>]
StartSaid == <<"INFO", <<"start: ", target_url>>>>
LoadedSaid == <<"SUCCESS", <<"page loaded">>>>
FinalSaid ==
    <<"SUCCESS", <<"final screenshot: ", result_dir, "/final_screenshot.png">>>>
Shots == [n \in 1 .. Count("screenshot") |-> calls[Sorted(Ops("screenshot"))[n]]]
NavigationOk ==
    /\ \E n \in Ops("goto") : calls[n].ok
    /\ \E n \in Ops("wait_for_load_state") : calls[n].ok

\* C12: a finished run with an empty Action list whose navigation, wait and
\* final screenshot all succeeded has a log of exactly three entries (start,
\* page loaded SUCCESS, final screenshot SUCCESS) and none with status ERROR,
\* its report is that log rendered, and its only screenshot call is the one
\* that wrote final_screenshot.png.
C12_EmptyScenarioLogAndShot ==
    (/\ Finished
     /\ actions = <<>>
     /\ NavigationOk
     /\ \E n \in Ops("screenshot") :
           calls[n].arg = "final_screenshot.png" /\ calls[n].ok)
    => /\ Said(report_logs) = <<StartSaid, LoadedSaid, FinalSaid>>
       /\ \A n \in 1 .. Len(report_logs) : report_logs[n].status # "ERROR"
       /\ report = RenderReport(report_logs)
       /\ Shots = <<[op |-> "screenshot", arg |-> "final_screenshot.png", ok |-> TRUE]>>
C12_Witness ==
    /\ Finished /\ actions = <<>> /\ NavigationOk /\ ~e.raised
    /\ Len(report_logs) = 3 /\ Count("screenshot") = 1

\* page.goto or the wait for the load state raised
NavigationFailed ==
    Failed("goto", target_url) \/ Failed("wait_for_load_state", "networkidle")

\* C13: once navigation has failed, whatever the Action list, no Action is
\* ever invoked and no entry of the log comes from an Action or says the page
\* loaded; after the except clause has logged, the log is the start entry
\* followed by one ERROR entry carrying the failure's message, and the report
\* of the finished run is that log rendered.
C13_NavigationFailureSkipsActions ==
    NavigationFailed
    => /\ invoked = <<>>
       /\ \A n \in 1 .. Len(report_logs) :
             authors[n] = Bot /\ Said(report_logs)[n] # LoadedSaid
       /\ e.raised
       /\ IF pc = "except"
          THEN Said(report_logs) = <<StartSaid>>
          ELSE Said(report_logs) = <<StartSaid, <<"ERROR", ErrorMessage(e)>>>>
       /\ Finished => report = RenderReport(report_logs)
C13_Witness ==
    /\ Finished /\ Failed("goto", target_url) /\ Len(actions) = MaxActions
    /\ Cardinality(BotErrors) = 1 /\ report # <<>>

\* the Action being executed is the example Action kind
Running(kind) == pc = "in_action" /\ actions[i + 1] = kind
\* this step made a page call, and the call returned
Returned(op) ==
    /\ Len(calls') = Len(calls) + 1
    /\ Last(calls').op = op /\ Last(calls').ok
\* this step appended one entry, by the running Action, saying (status, message)
Appends(status, message) ==
    /\ Len(report_logs') = Len(report_logs) + 1
    /\ IsPrefix(report_logs, report_logs')
    /\ Last(Said(report_logs')) = <<status, message>>
    /\ authors' = Append(authors, i)
\* positions of the entries that Actions of the kind appended
EntriesOf(kind) ==
    {n \in 1 .. Len(report_logs) : authors[n] # Bot /\ actions[authors[n] + 1] = kind}
AbsentSaid == <<"INFO", <<"no input field found (Skip)">>>>
NoneSaid == <<"INFO", <<"no button found">>>>

\* C14: when is_visible answers that no input field is there, the typing
\* Action appends its INFO entry about the missing field and reaches its end;
\* when the locator matches no button, the hover Action appends its INFO
\* entry that none was found and reaches its end. From its end either Action
\* returns to the loop with the exception slot untouched and the loop index
\* advanced, and the loop invokes the next Action. No entry of either Action
\* has status ERROR.
C14_AbsentElementIsInfoAndReturns ==
    /\ [](/\ InAction("type_absent") => ~loc.visible /\ Last(calls).op = "is_visible"
          /\ InAction("click_none") => loc.buttons = 0 /\ Last(calls).op = "locator.all"
          /\ \A n \in EntriesOf("type") \cup EntriesOf("click") :
                report_logs[n].status # "ERROR")
    /\ [][/\ (Running("type") /\ Returned("is_visible") /\ ~loc'.visible)
             => InAction("type_absent")'
          /\ (Running("click") /\ Returned("locator.all") /\ loc'.buttons = 0)
             => InAction("click_none")'
          /\ InAction("type_absent")
             => InAction("end")' /\ Appends(AbsentSaid[1], AbsentSaid[2]) /\ calls' = calls
          /\ InAction("click_none")
             => InAction("end")' /\ Appends(NoneSaid[1], NoneSaid[2]) /\ calls' = calls
          /\ (InAction("end") /\ (Running("type") \/ Running("click")))
             => /\ pc' = "actions" /\ i' = i + 1 /\ e' = e /\ ~e.raised
                /\ returned' = Append(returned, report_logs)
          /\ (pc = "actions" /\ i < Len(actions))
             => pc' = "in_action" /\ apc' = actions[i + 1] /\ invoked' = Append(invoked, i)
         ]_vars
\* a run in which the typing Action found no field, the hover Action after it
\* found no button, and both returned
C14_Witness ==
    /\ Finished /\ actions = <<"type", "click">> /\ Len(returned) = 2 /\ ~e.raised
    /\ \E n \in EntriesOf("type") : Said(report_logs)[n] = AbsentSaid
    /\ \E n \in EntriesOf("click") : Said(report_logs)[n] = NoneSaid

\* this step made a page call, and the call raised
RaisedIn(op) ==
    /\ Len(calls') = Len(calls) + 1
    /\ Last(calls').op = op /\ ~Last(calls').ok
LookupFailedSaid == <<"INFO", <<"typing element lookup failed">>>>

\* C15: whichever page call of the typing Action raises (is_visible, fill or
\* the pause), the exception does not reach run_test: the Action goes to its
\* except clause, appends one INFO entry there and returns to the loop; the
\* except clause of run_test is never entered from a typing Action, and no
\* entry of a typing Action has status ERROR.
C15_TypingAbsorbsPageFailures ==
    /\ [](/\ ActionRaised => actions[Len(invoked)] # "type"
          /\ Running("type") => ~e.raised
          /\ \A n \in EntriesOf("type") : report_logs[n].status # "ERROR")
    /\ [][/\ (Running("type") /\ (\/ RaisedIn("is_visible") \/ RaisedIn("fill")
                                  \/ RaisedIn("wait_for_timeout")))
             => InAction("type_except")' /\ e' = e /\ report_logs' = report_logs
          /\ InAction("type_except")
             => /\ InAction("end")' /\ e' = e /\ calls' = calls
                /\ Appends(LookupFailedSaid[1], LookupFailedSaid[2])
          /\ (Running("type") /\ pc' # "in_action")
             => /\ InAction("end") /\ pc' = "actions" /\ i' = i + 1 /\ e' = e
                /\ returned' = Append(returned, report_logs)
         ]_vars
\* a run whose typing Action had fill raise and its wait raise (in two
\* Actions), and that went on to the end without entering the except clause
C15_Witness ==
    /\ Finished /\ actions = <<"type", "type">> /\ Len(returned) = 2 /\ ~e.raised
    /\ Failed("fill", text_selector) /\ Failed("wait_for_timeout", "1000")
    /\ Cardinality({n \in EntriesOf("type") : Said(report_logs)[n] = LookupFailedSaid}) = 2

HoveredSaid == <<"SUCCESS", <<"first button hovered">>>>
CountSaid == <<"INFO", <<"buttons found: ", ToString(loc.buttons)>>>>
\* the hover Action has reached the end of its body
ClickAtEnd == InAction("end") /\ Running("click")
LastSaidByAction(said) == Last(Said(report_logs)) = said /\ Last(authors) = i

\* C16 (as claimed): when the hover Action returns, either a button matched
\* and the first was visible, and the Action's last call was the hover and
\* its last entry the SUCCESS entry; or (no match, or the first match not
\* visible) no hover was made and its last entry is the INFO entry saying
\* that no button was found.
C16_HoverOrNoneFound ==
    ClickAtEnd
    => IF loc.buttons > 0 /\ loc.visible
       THEN Last(calls).op = "first_btn.hover" /\ LastSaidByAction(HoveredSaid)
       ELSE Last(calls).op # "first_btn.hover" /\ LastSaidByAction(NoneSaid)

\* C16 (amended): the hover is called only when a button matched and the
\* first answered visible, and then it is the next step; when it returns the
\* SUCCESS entry is appended. When the Action returns: with a visible first
\* match its last call was the hover and its last entry the SUCCESS entry;
\* with no match it made no call after the lookup and its last entry is the
\* INFO entry that none was found; with a first match that is not visible it
\* made no call after is_visible and its last entry is the count of buttons
\* found: nothing is logged about the skipped hover.
C16_HoverOnlyVisibleFirstMatch ==
    /\ [](/\ InAction("click_hover") => loc.buttons > 0 /\ loc.visible
          /\ ClickAtEnd
             => CASE loc.buttons > 0 /\ loc.visible ->
                       /\ Last(calls) = [op |-> "first_btn.hover", arg |-> "", ok |-> TRUE]
                       /\ LastSaidByAction(HoveredSaid)
                  [] loc.buttons = 0 ->
                       Last(calls).op = "locator.all" /\ LastSaidByAction(NoneSaid)
                  [] loc.buttons > 0 /\ ~loc.visible ->
                       /\ Last(calls).op = "first_btn.is_visible"
                       /\ LastSaidByAction(CountSaid))
    /\ [][/\ (Len(calls') > Len(calls) /\ Last(calls').op = "first_btn.hover")
             => InAction("click_hover")
          /\ (Running("click") /\ Returned("first_btn.is_visible"))
             => IF loc'.visible THEN InAction("click_hover")' ELSE ClickAtEnd'
          /\ InAction("click_hover")
             => \/ Returned("first_btn.hover") /\ InAction("click_success")'
                \/ RaisedIn("first_btn.hover") /\ pc' = "except"
          /\ InAction("click_success")
             => ClickAtEnd' /\ Appends(HoveredSaid[1], HoveredSaid[2]) /\ calls' = calls
         ]_vars
\* a hover Action that hovered, then a second one whose first match answered
\* not visible and which is about to return
C16_Witness ==
    /\ ClickAtEnd /\ actions = <<"click", "click">> /\ i = 1
    /\ Succeeded("first_btn.hover") /\ loc.buttons > 0 /\ ~loc.visible
    /\ Last(calls).op = "first_btn.is_visible"

ResizeAtEnd == InAction("end") /\ Running("resize")
\* what the entries an Action invocation appended say, in order
SaidBy(a) ==
    LET at == Sorted({n \in 1 .. Len(report_logs) : authors[n] = a})
    IN  [n \in 1 .. Len(at) |-> Said(report_logs)[at[n]]]
SweepSaid ==
    <<<<"INFO", <<"resize test start">>>>>>
    \o [n \in 1 .. Len(sizes) |-> <<"INFO", <<"resolution: ", sizes[n]>>>>]

\* C17: when the resize sweep returns, its last call was the successful
\* set_viewport_size to 1280x720 and the viewport is 1280x720, so the loop of
\* run_test always stands between Actions with the configured viewport. Each
\* size's INFO entry is appended right after that size's viewport change
\* took effect, and at the return the Action has logged its start entry and
\* one INFO entry per size, in the order swept.
C17_SweepRestoresViewport ==
    /\ [](/\ ResizeAtEnd
             => /\ viewport = DefaultViewport
                /\ Last(calls) =
                      [op |-> "set_viewport_size", arg |-> DefaultViewport, ok |-> TRUE]
                /\ SaidBy(i) = SweepSaid
          /\ pc = "actions" => viewport = DefaultViewport
          /\ InAction("resize_log")
             => /\ viewport = sizes[loc.k + 1]
                /\ Last(calls) =
                      [op |-> "set_viewport_size", arg |-> viewport, ok |-> TRUE])
    /\ [][InAction("resize_log")
          => /\ Appends("INFO", <<"resolution: ", viewport>>)
             /\ viewport' = viewport /\ calls' = calls
         ]_vars
\* a sweep has returned and the Action after it has been invoked under the
\* configured viewport
C17_Witness ==
    /\ pc = "in_action" /\ i = 1 /\ actions[1] = "resize" /\ apc = actions[2]
    /\ viewport = DefaultViewport
    /\ Count("set_viewport_size") = Len(sizes) + 1

\* positions of the final-screenshot SUCCESS entries run_test appended
BotFinals ==
    {n \in 1 .. Len(report_logs) : authors[n] = Bot /\ Said(report_logs)[n] = FinalSaid}
ErrorShots == {n \in Ops("screenshot") : calls[n].arg = "error_screenshot.png"}

\* C18: run_test appends at most one ERROR entry and at most one final
\* SUCCESS entry, never both; the final SUCCESS entry is in the log only
\* when navigation and the wait succeeded, every Action of the list was
\* invoked and returned, and the final screenshot was written; the error
\* screenshot is attempted at most once and only after run_test's ERROR entry.
C18_ErrorAndFinalExclusive ==
    /\ Cardinality(BotErrors) <= 1
    /\ Cardinality(BotFinals) <= 1
    /\ BotErrors = {} \/ BotFinals = {}
    /\ BotFinals # {}
       => /\ NavigationOk /\ ~e.raised
          /\ Len(invoked) = Len(actions) /\ Len(returned) = Len(actions)
          /\ \E n \in Ops("screenshot") :
                calls[n].arg = "final_screenshot.png" /\ calls[n].ok
    /\ Cardinality(ErrorShots) <= 1
    /\ ErrorShots # {} => BotErrors # {} /\ e.raised
\* the final screenshot raised after every Action had returned: the run has
\* its ERROR entry and error screenshot, and no final SUCCESS entry
C18_Witness ==
    /\ Finished /\ Len(actions) > 0 /\ Len(returned) = Len(actions)
    /\ Failed("screenshot", "final_screenshot.png")
    /\ Cardinality(BotErrors) = 1 /\ Cardinality(ErrorShots) = 1 /\ BotFinals = {}

\* the index of the Action that raised, and the length the log had when the
\* Action before it returned (when run_test invoked the first Action, the
\* log held the start and page-loaded entries)
FailingAction == Len(invoked) - 1
LenBeforeFailing == IF returned = <<>> THEN 2 ELSE Len(Last(returned))

\* C19: when an Action raises, the raise itself leaves the log as it is; the
\* except clause then appends the ERROR entry and nothing changes the log
\* afterwards. So on the failure path the log is: everything logged up to
\* the return of the Action before the failing one, unchanged, then the
\* entries of the failing Action and nothing else, then run_test's ERROR
\* entry as the last entry; entries of Actions stand in the order of the
\* Actions, and the report of the finished run is that log rendered.
C19_FailingActionEntriesKept ==
    /\ [](ActionRaised
          => /\ returned # <<>> => IsPrefix(Last(returned), report_logs)
             /\ \A m, n \in 1 .. Len(report_logs) :
                   (m < n /\ authors[m] # Bot /\ authors[n] # Bot)
                   => authors[m] <= authors[n]
             /\ \A n \in 1 .. Len(report_logs) :
                   authors[n] = FailingAction => n > LenBeforeFailing
             /\ pc # "except"
                => /\ Last(authors) = Bot
                   /\ Last(Said(report_logs)) = <<"ERROR", ErrorMessage(e)>>
                   /\ \A n \in LenBeforeFailing + 1 .. Len(report_logs) - 1 :
                         authors[n] = FailingAction
             /\ Finished => report = RenderReport(report_logs))
    /\ [][/\ (pc = "in_action" /\ pc' = "except")
             => report_logs' = report_logs /\ authors' = authors
          /\ (ActionRaised /\ pc = "except")
             => /\ IsPrefix(report_logs, report_logs')
                /\ Len(report_logs') = Len(report_logs) + 1
                /\ authors' = Append(authors, Bot)
          /\ (ActionRaised /\ pc # "except") => report_logs' = report_logs
         ]_vars
\* the second Action logged and then raised, after a first one that logged
\* too, and the run has finished
C19_Witness ==
    /\ Finished /\ ActionRaised /\ FailingAction = 1
    /\ \E n \in 1 .. Len(report_logs) : authors[n] = FailingAction
    /\ \E n \in 1 .. Len(report_logs) : authors[n] = 0
    /\ Len(report_logs) = 5

\* this step is the write of report.html
WritesReport == Len(calls') = Len(calls) + 1 /\ Last(calls').op = "write"

\* C20: over any number of run_test calls on one bot no step ever removes or
\* changes an entry of the log, a new call included. Each call that writes
\* the report writes the rendering of the whole log to the one report.html;
\* the report it replaces is the rendering of a proper prefix of that log
\* (the log as the earlier call left it), and what follows the prefix begins
\* with the start entry of a later call.
C20_LogKeptAcrossCalls ==
    /\ [][IsPrefix(report_logs, report_logs')]_vars
    /\ [][WritesReport
          => /\ Last(calls').arg = "report.html"
             /\ report' = RenderReport(report_logs)
             /\ report # <<>>
                => \E n \in 1 .. Len(report_logs) - 1 :
                      /\ report = RenderReport(SubSeq(report_logs, 1, n))
                      /\ Said(report_logs)[n + 1] = StartSaid
         ]_vars
    /\ [](runs > 1 /\ EnteredTry /\ Finished => report = RenderReport(report_logs))
\* the second call on a bot has ended and its report holds the entries of
\* both calls, the first call's ERROR entry before the second call's start
C20_Witness ==
    /\ Finished /\ runs = 2 /\ Succeeded("write") /\ ~e.raised /\ actions = <<"user">>
    /\ report = RenderReport(report_logs)
    /\ \E n \in 2 .. Len(report_logs) - 1 :
          /\ Said(report_logs)[n][1] = "ERROR" /\ authors[n] = Bot
          /\ Said(report_logs)[n + 1] = StartSaid

====
